---- MODULE Spec2Model ----
(***************************************************************************)
(* Model of the MCP file server (server.go): the line loop MCPServer.Run,  *)
(* the dispatcher handleMessage, the resource and tool handlers and the    *)
(* path containment check they share.                                      *)
(*                                                                         *)
(* Text that the code inspects character by character (paths, URIs) is a   *)
(* sequence of one-character strings; fixed messages are plain strings.    *)
(***************************************************************************)
EXTENDS Integers, Sequences, FiniteSets, TLC

\* ------------------------------------------------------------------ bounds
\* Number of input lines the reader is given before the stream ends.
MaxLines == 2

\* ------------------------------------------------------------ text helpers
\* strings.HasPrefix
HasPrefix(s, prefix) ==
    /\ Len(prefix) <= Len(s)
    /\ SubSeq(s, 1, Len(prefix)) = prefix

\* strings.TrimPrefix
TrimPrefix(s, prefix) ==
    IF HasPrefix(s, prefix) THEN SubSeq(s, Len(prefix) + 1, Len(s)) ELSE s

\* The elements of a path between its separators (empty elements kept).
RECURSIVE SplitAt(_, _, _, _)
SplitAt(s, i, cur, acc) ==
    IF i > Len(s) THEN Append(acc, cur)
    ELSE IF s[i] = "/" THEN SplitAt(s, i + 1, <<>>, Append(acc, cur))
    ELSE SplitAt(s, i + 1, Append(cur, s[i]), acc)

Split(s) == SplitAt(s, 1, <<>>, <<>>)

\* strings.Join(elems, "/")
RECURSIVE JoinSlash(_)
JoinSlash(elems) ==
    IF elems = <<>> THEN <<>>
    ELSE IF Len(elems) = 1 THEN elems[1]
    ELSE elems[1] \o <<"/">> \o JoinSlash(Tail(elems))

\* filepath.IsAbs (unix)
IsAbs(p) == Len(p) > 0 /\ p[1] = "/"

\* The lexical processing of filepath.Clean: "" and "." elements are dropped,
\* ".." removes the element before it, is dropped at the root, and is kept at
\* the start of a relative path.
RECURSIVE CleanElems(_, _, _)
CleanElems(elems, rooted, acc) ==
    IF elems = <<>> THEN acc
    ELSE LET e == Head(elems)
             rest == Tail(elems)
         IN  IF e = <<>> \/ e = <<".">> THEN CleanElems(rest, rooted, acc)
             ELSE IF e = <<".", ".">> THEN
                 IF acc # <<>> /\ acc[Len(acc)] # <<".", ".">>
                     THEN CleanElems(rest, rooted, SubSeq(acc, 1, Len(acc) - 1))
                 ELSE IF rooted THEN CleanElems(rest, rooted, acc)
                 ELSE CleanElems(rest, rooted, Append(acc, e))
             ELSE CleanElems(rest, rooted, Append(acc, e))

\* The cleaned path written out from its elements.
CleanJoin(rooted, elems) ==
    IF rooted THEN <<"/">> \o JoinSlash(elems)
    ELSE IF elems = <<>> THEN <<".">>
    ELSE JoinSlash(elems)

\* filepath.Clean
Clean(p) ==
    IF p = <<>> THEN <<".">>
    ELSE CleanJoin(IsAbs(p), CleanElems(Split(p), IsAbs(p), <<>>))

\* filepath.Join of two elements: empty elements are ignored, the rest is
\* joined with a separator and cleaned.
Join(a, b) ==
    IF a # <<>> THEN Clean(a \o <<"/">> \o b)
    ELSE IF b # <<>> THEN Clean(b)
    ELSE <<>>

\* filepath.Abs with the process working directory wd.
Abs(wd, p) == IF IsAbs(p) THEN Clean(p) ELSE Join(wd, p)

\* The elements of a cleaned absolute path ("/" has none).
Elems(p) == CleanElems(Split(p), TRUE, <<>>)

\* One list of elements starts with the other.
StartsWith(t, r) == Len(r) <= Len(t) /\ SubSeq(t, 1, Len(r)) = r

\* Component-wise containment: target is root or a descendant of root.
Within(root, target) == StartsWith(Elems(target), Elems(root))

\* -------------------------------------------------------------- file system
\* Byte order of the characters that occur in file names.
Alphabet == <<"*", "-", ".", "/", ":", "?", "[", "\\", "]", "^", "_", "a", "b", "c",
              "d", "e", "f", "g", "h", "i", "l", "m", "o", "t", "u", "x">>

CharRank(c) == CHOOSE i \in 1..Len(Alphabet) : Alphabet[i] = c

\* Lexical (byte-wise) order of two names.
RECURSIVE NameLess(_, _)
NameLess(a, b) ==
    IF b = <<>> THEN FALSE
    ELSE IF a = <<>> THEN TRUE
    ELSE IF a[1] = b[1] THEN NameLess(Tail(a), Tail(b))
    ELSE CharRank(a[1]) < CharRank(b[1])

\* A node of the tree: a directory, or a file with its bytes (an opaque tag),
\* its size and whether the process may open it.
DirNode == [kind |-> "dir", content |-> "", size |-> 0, readable |-> TRUE]
LockedDirNode == [kind |-> "dir", content |-> "", size |-> 0, readable |-> FALSE]
FileNode(content, size, readable) ==
    [kind |-> "file", content |-> content, size |-> size, readable |-> readable]

\* /a/b holds f, the empty e, d/g and the unreadable u; /a/bc and /a/o lie
\* beside it.
TreeA ==
    ( <<"/">> :> DirNode ) @@
    ( <<"/", "a">> :> DirNode ) @@
    ( <<"/", "a", "/", "b">> :> DirNode ) @@
    ( <<"/", "a", "/", "b", "/", "f">> :> FileNode("F", 1, TRUE) ) @@
    ( <<"/", "a", "/", "b", "/", "e">> :> FileNode("", 0, TRUE) ) @@
    ( <<"/", "a", "/", "b", "/", "d">> :> DirNode ) @@
    ( <<"/", "a", "/", "b", "/", "d", "/", "g">> :> FileNode("GG", 2, TRUE) ) @@
    ( <<"/", "a", "/", "b", "/", "u">> :> FileNode("U", 1, FALSE) ) @@
    ( <<"/", "a", "/", "b", "c">> :> DirNode ) @@
    ( <<"/", "a", "/", "b", "c", "/", "x">> :> FileNode("X", 1, TRUE) ) @@
    ( <<"/", "a", "/", "o">> :> FileNode("O", 1, TRUE) )

\* The same places with an empty served directory.
TreeB ==
    ( <<"/">> :> DirNode ) @@
    ( <<"/", "a">> :> DirNode ) @@
    ( <<"/", "a", "/", "b">> :> DirNode ) @@
    ( <<"/", "a", "/", "b", "c">> :> DirNode ) @@
    ( <<"/", "a", "/", "b", "c", "/", "x">> :> FileNode("X", 1, TRUE) ) @@
    ( <<"/", "a", "/", "o">> :> FileNode("O", 1, TRUE) )

\* A served directory /a/b that holds f and a directory d the process may
\* not open.
TreeC ==
    ( <<"/">> :> DirNode ) @@
    ( <<"/", "a">> :> DirNode ) @@
    ( <<"/", "a", "/", "b">> :> DirNode ) @@
    ( <<"/", "a", "/", "b", "/", "d">> :> LockedDirNode ) @@
    ( <<"/", "a", "/", "b", "/", "d", "/", "g">> :> FileNode("GG", 2, TRUE) ) @@
    ( <<"/", "a", "/", "b", "/", "f">> :> FileNode("F", 1, TRUE) )

\* The directory holding a cleaned absolute path.
Dir(p) == Clean(p \o <<"/", ".", ".">>)

\* The last element of a cleaned absolute path.
Base(p) == LET e == Elems(p) IN IF e = <<>> THEN <<"/">> ELSE e[Len(e)]

\* Some proper ancestor of p is a file, so p cannot be looked up.
ThroughFile(tree, p) ==
    \E q \in DOMAIN tree :
        /\ tree[q].kind = "file"
        /\ q # p
        /\ Within(q, p)

\* A cleaned absolute path that names nothing and whose lookup fails with
\* "does not exist".
NotExist(tree, a) == a \notin DOMAIN tree /\ ~ThroughFile(tree, a)

\* os.Stat as main uses it: only "does not exist" is looked at.
StatNotExist(tree, wd, p) == NotExist(tree, Abs(wd, p))

\* os.ReadFile on a cleaned absolute path.
ReadFile(tree, p) ==
    IF p \in DOMAIN tree THEN
        IF tree[p].kind = "dir" THEN [err |-> "EISDIR", content |-> "", size |-> 0]
        ELSE IF ~tree[p].readable THEN [err |-> "EACCES", content |-> "", size |-> 0]
        ELSE [err |-> "", content |-> tree[p].content, size |-> tree[p].size]
    ELSE IF ThroughFile(tree, p) THEN [err |-> "ENOTDIR", content |-> "", size |-> 0]
    ELSE [err |-> "ENOENT", content |-> "", size |-> 0]

\* The names in a set, in lexical order.
RECURSIVE SortNames(_)
SortNames(names) ==
    IF names = {} THEN <<>>
    ELSE LET first == CHOOSE n \in names : \A m \in names \ {n} : NameLess(n, m)
         IN  <<first>> \o SortNames(names \ {first})

\* The paths directly inside directory p.
Children(tree, p) == {q \in DOMAIN tree : q # p /\ Dir(q) = p}

\* The path of the entry called name in directory p.
Entry(p, name) == IF p = <<"/">> THEN p \o name ELSE p \o <<"/">> \o name

\* The names found in directory p, sorted.
EntryNames(tree, p) == SortNames({Base(q) : q \in Children(tree, p)})

\* The directory entries for sorted names: name, kind and size.
DirEntries(tree, p, names) ==
    [i \in 1..Len(names) |->
        [name |-> names[i],
         isDir |-> tree[Entry(p, names[i])].kind = "dir",
         size |-> tree[Entry(p, names[i])].size]]

\* os.ReadDir on a cleaned absolute path: the entries sorted by file name.
ReadDir(tree, p) ==
    IF p \in DOMAIN tree THEN
        IF tree[p].kind = "file" THEN [err |-> "ENOTDIR", entries |-> <<>>]
        ELSE IF ~tree[p].readable THEN [err |-> "EACCES", entries |-> <<>>]
        ELSE [err |-> "", entries |-> DirEntries(tree, p, EntryNames(tree, p))]
    ELSE IF ThroughFile(tree, p) THEN [err |-> "ENOTDIR", entries |-> <<>>]
    ELSE [err |-> "ENOENT", entries |-> <<>>]

\* os.IsNotExist
IsNotExist(err) == err = "ENOENT"

\* ------------------------------------------------- names the code compares
\* Method names of handleMessage's switch, tool names of handleCallTool's
\* switch and the URI scheme, as the character strings the code compares.
M_initialize ==
    <<"i", "n", "i", "t", "i", "a", "l", "i", "z", "e">>
M_notifications_initialized ==
    <<"n", "o", "t", "i", "f", "i", "c", "a", "t", "i", "o", "n", "s", "/", "i", "n", "i", "t", "i", "a", "l", "i", "z", "e", "d">>
M_resources_list ==
    <<"r", "e", "s", "o", "u", "r", "c", "e", "s", "/", "l", "i", "s", "t">>
M_resources_read ==
    <<"r", "e", "s", "o", "u", "r", "c", "e", "s", "/", "r", "e", "a", "d">>
M_tools_list ==
    <<"t", "o", "o", "l", "s", "/", "l", "i", "s", "t">>
M_tools_call ==
    <<"t", "o", "o", "l", "s", "/", "c", "a", "l", "l">>
T_read_file ==
    <<"r", "e", "a", "d", "_", "f", "i", "l", "e">>
T_list_directory ==
    <<"l", "i", "s", "t", "_", "d", "i", "r", "e", "c", "t", "o", "r", "y">>
T_search_files ==
    <<"s", "e", "a", "r", "c", "h", "_", "f", "i", "l", "e", "s">>
FileScheme ==
    <<"f", "i", "l", "e", ":", "/", "/">>

\* The extension table of getMimeType (extensions are lower-cased first;
\* the names of this model are lower case).
MimeTable ==
    ( <<".", "t", "x", "t">> :> "text/plain" ) @@
    ( <<".", "m", "d">> :> "text/plain" ) @@
    ( <<".", "m", "a", "r", "k", "d", "o", "w", "n">> :> "text/plain" ) @@
    ( <<".", "j", "s", "o", "n">> :> "application/json" ) @@
    ( <<".", "x", "m", "l">> :> "application/xml" ) @@
    ( <<".", "h", "t", "m", "l">> :> "text/html" ) @@
    ( <<".", "h", "t", "m">> :> "text/html" ) @@
    ( <<".", "c", "s", "s">> :> "text/css" ) @@
    ( <<".", "j", "s">> :> "application/javascript" ) @@
    ( <<".", "g", "o">> :> "text/plain" ) @@
    ( <<".", "p", "y">> :> "text/plain" ) @@
    ( <<".", "j", "a", "v", "a">> :> "text/plain" ) @@
    ( <<".", "c">> :> "text/plain" ) @@
    ( <<".", "c", "p", "p">> :> "text/plain" ) @@
    ( <<".", "h">> :> "text/plain" )

\* filepath.Ext: the suffix of the last element from its last dot, or nothing.
RECURSIVE ExtFrom(_, _)
ExtFrom(p, i) ==
    IF i < 1 \/ p[i] = "/" THEN <<>>
    ELSE IF p[i] = "." THEN SubSeq(p, i, Len(p))
    ELSE ExtFrom(p, i - 1)

Ext(p) == ExtFrom(p, Len(p))

\* getMimeType
getMimeType(ext) ==
    IF ext \in DOMAIN MimeTable THEN MimeTable[ext] ELSE "application/octet-stream"

\* Number of leading elements two element lists share.
RECURSIVE CommonLen(_, _)
CommonLen(a, b) ==
    IF a = <<>> \/ b = <<>> \/ Head(a) # Head(b) THEN 0
    ELSE 1 + CommonLen(Tail(a), Tail(b))

\* filepath.Rel: the path that leads from base to targ, both taken lexically;
\* it fails when only one of them is absolute or when base climbs above the
\* point the two share.
RelElems(b, t, be, te, k) ==
    IF t = b THEN [err |-> FALSE, path |-> <<".">>]
    ELSE IF IsAbs(b) # IsAbs(t) THEN [err |-> TRUE, path |-> <<>>]
    ELSE IF \E i \in (k + 1)..Len(be) : be[i] = <<".", ".">>
        THEN [err |-> TRUE, path |-> <<>>]
    ELSE [err |-> FALSE,
          path |-> JoinSlash([i \in 1..(Len(be) - k) |-> <<".", ".">>]
                             \o SubSeq(te, k + 1, Len(te)))]

\* The elements of a cleaned path ("." has none).
CleanedElems(c) ==
    IF c = <<".">> THEN <<>> ELSE CleanElems(Split(c), IsAbs(c), <<>>)

RelSplit(b, t, be, te) == RelElems(b, t, be, te, CommonLen(be, te))

RelCleaned(b, t) == RelSplit(b, t, CleanedElems(b), CleanedElems(t))

Rel(base, targ) == RelCleaned(Clean(base), Clean(targ))

\* ------------------------------------------------------------- JSON values
\* A JSON value of an input line. Object members are a function from key to
\* value; a number is hi * 2^53 + lo, which lets ids beyond the exact range
\* of a float64 be written with small integers.
JNull == [t |-> "null"]
JStr(s) == [t |-> "string", s |-> s]
JNum(hi, lo) == [t |-> "number", hi |-> hi, lo |-> lo]
JBool(b) == [t |-> "bool", b |-> b]
JArr == [t |-> "array"]
JObj(o) == [t |-> "object", o |-> o]

\* A Go nil interface value (an absent or null member).
Nil == [t |-> "nil"]

\* The member of an object, null when it is absent: the decoder leaves the Go
\* zero value in place for both.
Field(v, key) ==
    IF v.t = "object" /\ key \in DOMAIN v.o THEN v.o[key] ELSE JNull

\* strconv.ParseFloat to float64, round to nearest even: integers below 2^53
\* are exact, and in [2^53, 2^54) only even integers are representable.
Float64(n) ==
    IF n.hi = 0 \/ n.lo % 2 = 0 THEN n
    ELSE IF ((n.lo - 1) \div 2) % 2 = 0 THEN JNum(n.hi, n.lo - 1)
    ELSE JNum(n.hi, n.lo + 1)

\* encoding/json decoding into interface{}: null is nil, a number becomes a
\* float64, anything else is kept.
DecodeAny(v) ==
    CASE v.t = "null" -> Nil
      [] v.t = "number" -> Float64(v)
      [] OTHER -> v

\* Go types the decoder is asked to fill.
TAny == [k |-> "any"]
TString == [k |-> "string"]
TBool == [k |-> "bool"]
TInt == [k |-> "int"]
TMap == [k |-> "map"]
TStruct(fields) == [k |-> "struct", fields |-> fields]

\* json.Unmarshal succeeds: null fits every type (it is skipped), a member
\* the struct does not declare is ignored, a declared member must fit its type.
RECURSIVE Fits(_, _)
Fits(v, ty) ==
    IF v.t = "null" THEN TRUE
    ELSE CASE ty.k = "any" -> TRUE
           [] ty.k = "string" -> v.t = "string"
           [] ty.k = "bool" -> v.t = "bool"
           [] ty.k = "int" -> v.t = "number"
           [] ty.k = "map" -> v.t = "object"
           [] ty.k = "struct" ->
                /\ v.t = "object"
                /\ \A key \in (DOMAIN v.o) \cap (DOMAIN ty.fields) :
                       Fits(v.o[key], ty.fields[key])

\* The string a string member decodes to ("" when absent or null).
StringOf(v) == IF v.t = "string" THEN v.s ELSE <<>>

RPCErrorT == TStruct([code |-> TInt, message |-> TString, data |-> TAny])

JSONRPCMessageT ==
    TStruct([jsonrpc |-> TString, id |-> TAny, method |-> TString,
             params |-> TAny, result |-> TAny, error |-> RPCErrorT])

InitializeParamsT ==
    TStruct([protocolVersion |-> TString,
             capabilities |-> TStruct([roots |-> TStruct([listChanged |-> TBool]),
                                       sampling |-> TStruct(<<>>)]),
             clientInfo |-> TStruct([name |-> TString, version |-> TString]),
             meta |-> TMap])

ReadResourceParamsT == TStruct([uri |-> TString])

CallToolParamsT == TStruct([name |-> TString, arguments |-> TMap])

\* The JSONRPCMessage a line decodes to (json.Unmarshal in Run).
DecodeMessage(v) ==
    [ID |-> DecodeAny(Field(v, "id")),
     Method |-> StringOf(Field(v, "method")),
     Params |-> DecodeAny(Field(v, "params"))]

\* mustMarshal: nil becomes the empty object, any other value its own JSON.
mustMarshal(v) == IF v.t = "nil" THEN JObj(<<>>) ELSE v

\* --------------------------------------------------------------- responses
MethodNotFound == -32601
InvalidParams == -32602
InternalError == -32603

\* What a handler's result holds: kind tells the Go result type, isError and
\* text/arg (a format and its argument) are those of a CallToolResult, body
\* the remaining payload.
Result(kind, isError, text, arg, body) ==
    [kind |-> kind, isError |-> isError, text |-> text, arg |-> arg, body |-> body]

NoResult == Result("none", FALSE, "", <<>>, <<>>)

\* sendError: an envelope with the id and an error payload, no result.
sendError(id, code, message) ==
    [id |-> id, code |-> code, message |-> message, result |-> NoResult]

\* sendResult: an envelope with the id and a result, no error payload
\* (code 0 stands for the absent error member).
sendResult(id, result) ==
    [id |-> id, code |-> 0, message |-> "", result |-> result]

\* sendToolResult
sendToolResult(id, text, arg, body, isError) ==
    sendResult(id, Result("tool", isError, text, arg, body))

\* ------------------------------------------------------------ filepath.Match
\* scanChunk: leading stars are dropped (star says whether there were any);
\* the chunk runs to the next star outside a character class.
RECURSIVE DropStars(_)
DropStars(p) == IF p # <<>> /\ p[1] = "*" THEN DropStars(Tail(p)) ELSE p

RECURSIVE ScanTo(_, _, _)
ScanTo(p, i, inrange) ==
    IF i > Len(p) THEN i
    ELSE CASE p[i] = "\\" ->
                IF i + 1 <= Len(p) THEN ScanTo(p, i + 2, inrange)
                ELSE ScanTo(p, i + 1, inrange)
           [] p[i] = "[" -> ScanTo(p, i + 1, TRUE)
           [] p[i] = "]" -> ScanTo(p, i + 1, FALSE)
           [] p[i] = "*" -> IF inrange THEN ScanTo(p, i + 1, inrange) ELSE i
           [] OTHER -> ScanTo(p, i + 1, inrange)

ChunkAt(star, p, i) ==
    [star |-> star, chunk |-> SubSeq(p, 1, i - 1), rest |-> SubSeq(p, i, Len(p))]

ChunkOf(star, p) == ChunkAt(star, p, ScanTo(p, 1, FALSE))

scanChunk(pattern) == ChunkOf(pattern # <<>> /\ pattern[1] = "*", DropStars(pattern))

\* getEsc: one possibly escaped character of a class; the pattern is bad when
\* nothing, "-" or "]" stands there, or when nothing follows the character.
Unescaped(c) ==
    IF c = <<>> \/ Tail(c) = <<>>
    THEN [err |-> TRUE, r |-> "", chunk |-> <<>>]
    ELSE [err |-> FALSE, r |-> c[1], chunk |-> Tail(c)]

getEsc(chunk) ==
    IF chunk = <<>> \/ chunk[1] = "-" \/ chunk[1] = "]"
    THEN [err |-> TRUE, r |-> "", chunk |-> <<>>]
    ELSE Unescaped(IF chunk[1] = "\\" THEN Tail(chunk) ELSE chunk)

\* The upper end of a range whose lower end is lo: the character after a
\* "-", else lo itself.
RangeHi(lo) ==
    IF ~lo.err /\ lo.chunk[1] = "-" THEN getEsc(Tail(lo.chunk)) ELSE lo

\* The character r lies in the range lo..hi.
InRange(has, r, lo, hi) ==
    has /\ CharRank(lo.r) <= CharRank(r) /\ CharRank(r) <= CharRank(hi.r)

\* The ranges of a character class up to its closing bracket: has/r is the
\* character of the name being tested (none once the match has failed).
RECURSIVE ParseClass(_, _, _, _, _)
RECURSIVE ParseRange(_, _, _, _, _, _)
ParseClass(chunk, has, r, match, nrange) ==
    IF chunk # <<>> /\ chunk[1] = "]" /\ nrange > 0
    THEN [err |-> FALSE, chunk |-> Tail(chunk), match |-> match]
    ELSE ParseRange(has, r, match, nrange, getEsc(chunk), RangeHi(getEsc(chunk)))

ParseRange(has, r, match, nrange, lo, hi) ==
    IF lo.err \/ hi.err THEN [err |-> TRUE, chunk |-> <<>>, match |-> FALSE]
    ELSE ParseClass(hi.chunk, has, r, match \/ InRange(has, r, lo, hi), nrange + 1)

\* The class that starts chunk (after its "["), with its negation mark.
ClassBody(c1) == IF c1 # <<>> /\ c1[1] = "^" THEN Tail(c1) ELSE c1
ClassNegated(c1) == c1 # <<>> /\ c1[1] = "^"

\* matchChunk: the chunk against the start of s. After the match has failed
\* the rest of the chunk is still checked for being well formed.
RECURSIVE MatchChunkFrom(_, _, _)
RECURSIVE MatchChunkStep(_, _, _)
RECURSIVE MatchChunkClass(_, _, _, _)
MatchChunkFrom(chunk, s, wasFailed) ==
    IF chunk = <<>>
    THEN IF wasFailed THEN [rest |-> <<>>, ok |-> FALSE, err |-> FALSE]
         ELSE [rest |-> s, ok |-> TRUE, err |-> FALSE]
    ELSE MatchChunkStep(chunk, s, wasFailed \/ s = <<>>)

MatchChunkClass(s, failed, negated, cls) ==
    IF cls.err THEN [rest |-> <<>>, ok |-> FALSE, err |-> TRUE]
    ELSE MatchChunkFrom(cls.chunk, IF failed THEN s ELSE Tail(s),
                        failed \/ (cls.match = negated))

MatchChunkStep(chunk, s, failed) ==
    CASE chunk[1] = "[" ->
            MatchChunkClass(s, failed, ClassNegated(Tail(chunk)),
                ParseClass(ClassBody(Tail(chunk)), ~failed,
                           IF failed THEN "" ELSE s[1], FALSE, 0))
      [] chunk[1] = "\\" /\ Tail(chunk) = <<>> ->
            [rest |-> <<>>, ok |-> FALSE, err |-> TRUE]
      [] OTHER ->
            MatchChunkFrom(
                IF chunk[1] = "\\" THEN Tail(Tail(chunk)) ELSE Tail(chunk),
                IF failed THEN s ELSE Tail(s),
                failed \/ CASE chunk[1] = "?" -> s[1] = "/"
                            [] chunk[1] = "\\" -> chunk[2] # s[1]
                            [] OTHER -> chunk[1] # s[1])

matchChunk(chunk, s) == MatchChunkFrom(chunk, s, FALSE)

\* filepath.Match: matched, or err for a pattern found to be malformed.
RECURSIVE Match(_, _)
RECURSIVE MatchChunked(_, _)
RECURSIVE MatchTried(_, _, _)
RECURSIVE MatchStar(_, _, _, _)
RECURSIVE MatchStarTried(_, _, _, _, _)
Match(pattern, name) ==
    IF pattern = <<>> THEN [matched |-> name = <<>>, err |-> FALSE]
    ELSE MatchChunked(name, scanChunk(pattern))

MatchChunked(name, sc) ==
    IF sc.star /\ sc.chunk = <<>>
    THEN [matched |-> \A i \in 1..Len(name) : name[i] # "/", err |-> FALSE]
    ELSE MatchTried(name, sc, matchChunk(sc.chunk, name))

MatchTried(name, sc, m) ==
    IF m.ok /\ (m.rest = <<>> \/ sc.rest # <<>>) THEN Match(sc.rest, m.rest)
    ELSE IF m.err THEN [matched |-> FALSE, err |-> TRUE]
    ELSE IF sc.star THEN MatchStar(sc.chunk, sc.rest, name, 0)
    ELSE [matched |-> FALSE, err |-> FALSE]

\* The loop of Match that lets a star swallow i+1 characters of the name.
MatchStar(chunk, rest, name, i) ==
    IF i >= Len(name) \/ name[i + 1] = "/" THEN [matched |-> FALSE, err |-> FALSE]
    ELSE MatchStarTried(chunk, rest, name, i,
                        matchChunk(chunk, SubSeq(name, i + 2, Len(name))))

MatchStarTried(chunk, rest, name, i, m) ==
    IF m.ok /\ ~(rest = <<>> /\ m.rest # <<>>) THEN Match(rest, m.rest)
    ELSE IF ~m.ok /\ m.err THEN [matched |-> FALSE, err |-> TRUE]
    ELSE MatchStar(chunk, rest, name, i + 1)

\* ---------------------------------------------------------------- handlers
\* What serving one message did: the handlers that ran, in call order, the
\* containment check if one was made (the two absolute paths compared and
\* its verdict), and the envelopes written to standard output.
NoCheck == [done |-> FALSE, abs |-> <<>>, base |-> <<>>, ok |-> FALSE]
Checked(abs, base, ok) == [done |-> TRUE, abs |-> abs, base |-> base, ok |-> ok]

Outcome(handlers, check, sent) ==
    [handlers |-> handlers, check |-> check, sent |-> sent]

\* The containment test of the three path handlers:
\* strings.HasPrefix(absPath, absBaseDir).
Contained(absPath, absBaseDir) == HasPrefix(absPath, absBaseDir)

\* handleInitialize
handleInitialize(id, params) ==
    Outcome(<<"handleInitialize">>, NoCheck,
        <<sendResult(id, Result("initialize", FALSE, "", <<>>,
                                <<"2024-11-05", "file-server", "1.0.0">>))>>)

\* A handleNotificationInitialized that answers like the other handlers.
NotificationAnswered ==
    Outcome(<<"handleNotificationInitialized">>, NoCheck,
        <<sendResult(Nil, Result("none", FALSE, "", <<>>, <<>>))>>)

\* handleNotificationInitialized: logs, writes nothing.
handleNotificationInitialized ==
    Outcome(<<"handleNotificationInitialized">>, NoCheck, <<>>)

\* A walk that does not descend: the files directly inside p only.
WalkShallow(tree, p) ==
    IF tree[p].kind = "file" THEN <<p>>
    ELSE SelectSeq([k \in 1..Len(EntryNames(tree, p)) |-> Entry(p, EntryNames(tree, p)[k])],
                   LAMBDA q : tree[q].kind = "file")

\* The files below p in the order filepath.WalkDir visits them: a directory's
\* entries in lexical order, each directory descended into when it is met.
RECURSIVE WalkFrom(_, _)
RECURSIVE WalkEach(_, _, _)
WalkFrom(tree, p) ==
    IF tree[p].kind = "file" THEN <<p>>
    ELSE WalkEach(tree, p, EntryNames(tree, p))

WalkEach(tree, p, names) ==
    IF names = <<>> THEN <<>>
    ELSE WalkFrom(tree, Entry(p, Head(names))) \o WalkEach(tree, p, Tail(names))

\* The path WalkDir hands to its callback for the file at absolute path q:
\* the root as given for the root itself, else the root joined with the names
\* that lead to q.
WalkPath(wd, baseDir, q) ==
    IF q = Abs(wd, baseDir) THEN baseDir
    ELSE Join(baseDir, Rel(Abs(wd, baseDir), q).path)

\* filepath.WalkDir(baseDir, ...): the callback paths of the files in visit
\* order, or err when the root cannot be looked up.
WalkPaths(wd, baseDir, files) ==
    [i \in 1..Len(files) |-> WalkPath(wd, baseDir, files[i])]

\* Some directory at or below root cannot be opened: WalkDir hands the error
\* to the callback, which returns it and so ends the walk.
WalkBlocked(tree, root) ==
    \E q \in DOMAIN tree :
        tree[q].kind = "dir" /\ ~tree[q].readable /\ Within(root, q)

WalkRoot(tree, wd, baseDir, root) ==
    IF root \notin DOMAIN tree \/ WalkBlocked(tree, root)
    THEN [err |-> TRUE, paths |-> <<>>]
    ELSE [err |-> FALSE, paths |-> WalkPaths(wd, baseDir, WalkFrom(tree, root))]

WalkDir(tree, wd, baseDir) == WalkRoot(tree, wd, baseDir, Abs(wd, baseDir))

\* The Resource the walk callback of handleListResources appends for a path.
ResourceOf(baseDir, path, rel) ==
    [uri |-> FileScheme \o Join(baseDir, rel.path),
     name |-> rel.path,
     mimeType |-> getMimeType(Ext(path))]

ListResourcesReply(baseDir, id, walk, rels) ==
    IF walk.err \/ \E i \in 1..Len(rels) : rels[i].err
    THEN <<sendError(id, InternalError, "Failed to list resources: %v")>>
    ELSE <<sendResult(id, Result("resources", FALSE, "", <<>>,
              [i \in 1..Len(rels) |-> ResourceOf(baseDir, walk.paths[i], rels[i])]))>>

ListResourcesWalked(baseDir, id, walk) ==
    ListResourcesReply(baseDir, id, walk,
        [i \in 1..Len(walk.paths) |-> Rel(baseDir, walk.paths[i])])

\* handleListResources
handleListResources(tree, wd, baseDir, id) ==
    Outcome(<<"handleListResources">>, NoCheck,
        ListResourcesWalked(baseDir, id, WalkDir(tree, wd, baseDir)))

\* A ResourceContent as json.Marshal writes it: uri always, mimeType, text
\* and blob only when not empty (omitempty); members are the keys written.
ResourceContent(uri, mimeType, text, blob) ==
    [uri |-> uri, mimeType |-> mimeType, text |-> text, blob |-> blob,
     members |-> {"uri"}
                 \cup (IF mimeType # "" THEN {"mimeType"} ELSE {})
                 \cup (IF text # "" THEN {"text"} ELSE {})
                 \cup (IF blob # "" THEN {"blob"} ELSE {})]

\* handleReadResource, from os.ReadFile on.
ReadResourceReply(id, uri, absPath, read) ==
    IF read.err = ""
    THEN <<sendResult(id, Result("contents", FALSE, "", <<>>,
              <<ResourceContent(uri, getMimeType(Ext(absPath)), read.content, "")>>))>>
    ELSE IF IsNotExist(read.err)
    THEN <<sendError(id, InvalidParams, "File not found")>>
    ELSE <<sendError(id, InternalError, "Failed to read file: %v")>>

\* handleReadResource, from the security check on.
ReadResourceChecked(tree, id, uri, absPath, absBaseDir) ==
    IF ~Contained(absPath, absBaseDir)
    THEN Outcome(<<"handleReadResource">>, Checked(absPath, absBaseDir, FALSE),
             <<sendError(id, InvalidParams,
                         "Access denied: file outside allowed directory")>>)
    ELSE Outcome(<<"handleReadResource">>, Checked(absPath, absBaseDir, TRUE),
             ReadResourceReply(id, uri, absPath, ReadFile(tree, absPath)))

ReadResourceUri(tree, wd, baseDir, id, uri) ==
    IF ~HasPrefix(uri, FileScheme)
    THEN Outcome(<<"handleReadResource">>, NoCheck,
             <<sendError(id, InvalidParams, "Invalid URI scheme, expected file://")>>)
    ELSE ReadResourceChecked(tree, id, uri,
             Abs(wd, TrimPrefix(uri, FileScheme)), Abs(wd, baseDir))

\* handleReadResource
handleReadResource(tree, wd, baseDir, id, params) ==
    ReadResourceUri(tree, wd, baseDir, id, StringOf(Field(params, "uri")))

\* handleListTools
handleListTools(id) ==
    Outcome(<<"handleListTools">>, NoCheck,
        <<sendResult(id, Result("tools", FALSE, "", <<>>,
                                <<T_read_file, T_list_directory, T_search_files>>))>>)

\* args[key] of a map[string]interface{}: present, and a string.
HasKey(args, key) == args.t = "object" /\ key \in DOMAIN args.o
IsString(v) == v.t = "string"

\* A handleReadFileTool that reports every failed read as an RPC fault.
ReadFileFaults(id, path, read) ==
    IF read.err = ""
    THEN <<sendToolResult(id, "Contents of %s:\n%s", path, <<read.content>>, FALSE)>>
    ELSE <<sendError(id, InternalError, "Failed to read file: %v")>>

\* handleReadFileTool, from os.ReadFile on.
ReadFileReply(id, path, read) ==
    IF read.err = ""
    THEN <<sendToolResult(id, "Contents of %s:\n%s", path, <<read.content>>, FALSE)>>
    ELSE IF IsNotExist(read.err)
    THEN <<sendToolResult(id, "File not found: %s", path, <<>>, TRUE)>>
    ELSE <<sendToolResult(id, "Failed to read file: %v", <<>>, <<>>, TRUE)>>

\* handleReadFileTool, from the security check on.
ReadFileChecked(tree, id, path, absPath, absBaseDir) ==
    IF ~Contained(absPath, absBaseDir)
    THEN Outcome(<<"handleCallTool", "handleReadFileTool">>,
             Checked(absPath, absBaseDir, FALSE),
             <<sendError(id, InvalidParams,
                         "Access denied: file outside allowed directory")>>)
    ELSE Outcome(<<"handleCallTool", "handleReadFileTool">>,
             Checked(absPath, absBaseDir, TRUE),
             ReadFileReply(id, path, ReadFile(tree, absPath)))

\* handleReadFileTool
handleReadFileTool(tree, wd, baseDir, id, args) ==
    IF ~HasKey(args, "path")
    THEN Outcome(<<"handleCallTool", "handleReadFileTool">>, NoCheck,
             <<sendError(id, InvalidParams, "Missing required argument: path")>>)
    ELSE IF ~IsString(Field(args, "path"))
    THEN Outcome(<<"handleCallTool", "handleReadFileTool">>, NoCheck,
             <<sendError(id, InvalidParams, "Invalid path argument: must be string")>>)
    ELSE ReadFileChecked(tree, id, StringOf(Field(args, "path")),
             Abs(wd, Join(baseDir, StringOf(Field(args, "path")))),
             Abs(wd, baseDir))

\* handleListDirectoryTool, from the heading of the listing on.
ListDirectoryText(id, relPath, entries) ==
    IF relPath = <<".">>
    THEN <<sendToolResult(id, "Contents of base directory:\n", <<>>, entries, FALSE)>>
    ELSE <<sendToolResult(id, "Contents of %s:\n", relPath, entries, FALSE)>>

\* handleListDirectoryTool, from os.ReadDir on.
ListDirectoryReply(baseDir, id, targetDir, absPath, dir) ==
    IF dir.err = ""
    THEN ListDirectoryText(id, Rel(baseDir, absPath).path, dir.entries)
    ELSE IF IsNotExist(dir.err)
    THEN <<sendToolResult(id, "Directory not found: %s", targetDir, <<>>, TRUE)>>
    ELSE <<sendToolResult(id, "Failed to list directory: %v", <<>>, <<>>, TRUE)>>

\* handleListDirectoryTool, from the security check on.
ListDirectoryChecked(tree, baseDir, id, targetDir, absPath, absBaseDir) ==
    IF ~Contained(absPath, absBaseDir)
    THEN Outcome(<<"handleCallTool", "handleListDirectoryTool">>,
             Checked(absPath, absBaseDir, FALSE),
             <<sendError(id, InvalidParams,
                         "Access denied: directory outside allowed path")>>)
    ELSE Outcome(<<"handleCallTool", "handleListDirectoryTool">>,
             Checked(absPath, absBaseDir, TRUE),
             ListDirectoryReply(baseDir, id, targetDir, absPath,
                                ReadDir(tree, absPath)))

ListDirectoryTarget(tree, wd, baseDir, id, targetDir) ==
    ListDirectoryChecked(tree, baseDir, id, targetDir,
                         Abs(wd, targetDir), Abs(wd, baseDir))

\* handleListDirectoryTool
handleListDirectoryTool(tree, wd, baseDir, id, args) ==
    IF ~HasKey(args, "path")
    THEN ListDirectoryTarget(tree, wd, baseDir, id, baseDir)
    ELSE IF ~IsString(Field(args, "path"))
    THEN Outcome(<<"handleCallTool", "handleListDirectoryTool">>, NoCheck,
             <<sendError(id, InvalidParams, "Invalid path argument: must be string")>>)
    ELSE ListDirectoryTarget(tree, wd, baseDir, id,
                             Join(baseDir, StringOf(Field(args, "path"))))

\* A search that takes every file for a match.
SearchEverything(baseDir, pattern, paths, matches) ==
    [err |-> FALSE,
     matches |-> [k \in 1..Len(paths) |-> Rel(baseDir, paths[k]).path]]

\* The walk callback of handleSearchFilesTool over the callback paths in walk
\* order: the relative paths of the files whose base name matches, or err as
\* soon as Match (or Rel) reports an error.
RECURSIVE SearchWalk(_, _, _, _)
RECURSIVE SearchVisit(_, _, _, _, _, _)
SearchWalk(baseDir, pattern, paths, matches) ==
    IF paths = <<>> THEN [err |-> FALSE, matches |-> matches]
    ELSE SearchVisit(baseDir, pattern, paths, matches,
                     Match(pattern, Base(Clean(Head(paths)))),
                     Rel(baseDir, Head(paths)))

SearchVisit(baseDir, pattern, paths, matches, m, rel) ==
    IF m.err \/ (m.matched /\ rel.err) THEN [err |-> TRUE, matches |-> <<>>]
    ELSE SearchWalk(baseDir, pattern, Tail(paths),
                    IF m.matched THEN Append(matches, rel.path) ELSE matches)

SearchFilesText(id, pattern, matches) ==
    IF matches = <<>>
    THEN <<sendToolResult(id,
              "Files matching pattern '%s':\nNo files found matching the pattern.",
              pattern, matches, FALSE)>>
    ELSE <<sendToolResult(id, "Files matching pattern '%s':\n", pattern, matches, FALSE)>>

SearchFilesReply(id, pattern, found) ==
    IF found.err THEN <<sendToolResult(id, "Search failed: %v", <<>>, <<>>, TRUE)>>
    ELSE SearchFilesText(id, pattern, found.matches)

SearchFilesWalked(baseDir, id, pattern, walk) ==
    IF walk.err THEN <<sendToolResult(id, "Search failed: %v", <<>>, <<>>, TRUE)>>
    ELSE SearchFilesReply(id, pattern, SearchWalk(baseDir, pattern, walk.paths, <<>>))

\* handleSearchFilesTool
handleSearchFilesTool(tree, wd, baseDir, id, args) ==
    IF ~HasKey(args, "pattern")
    THEN Outcome(<<"handleCallTool", "handleSearchFilesTool">>, NoCheck,
             <<sendError(id, InvalidParams, "Missing required argument: pattern")>>)
    ELSE IF ~IsString(Field(args, "pattern"))
    THEN Outcome(<<"handleCallTool", "handleSearchFilesTool">>, NoCheck,
             <<sendError(id, InvalidParams, "Invalid pattern argument: must be string")>>)
    ELSE Outcome(<<"handleCallTool", "handleSearchFilesTool">>, NoCheck,
             SearchFilesWalked(baseDir, id, StringOf(Field(args, "pattern")),
                               WalkDir(tree, wd, baseDir)))

\* handleCallTool, the switch over the tool name.
CallToolNamed(tree, wd, baseDir, id, name, args) ==
    CASE name = T_read_file -> handleReadFileTool(tree, wd, baseDir, id, args)
      [] name = T_list_directory -> handleListDirectoryTool(tree, wd, baseDir, id, args)
      [] name = T_search_files -> handleSearchFilesTool(tree, wd, baseDir, id, args)
      [] OTHER ->
            Outcome(<<"handleCallTool">>, NoCheck,
                <<sendError(id, MethodNotFound, "Tool not found: %s")>>)

\* handleCallTool
handleCallTool(tree, wd, baseDir, id, params) ==
    CallToolNamed(tree, wd, baseDir, id,
                  StringOf(Field(params, "name")), Field(params, "arguments"))

\* handleMessage, the switch over the method name once msg.Params has been
\* marshalled again: the three methods with parameters decode them first and
\* answer -32602 when decoding fails.
Dispatch(tree, wd, baseDir, msg, params) ==
    CASE msg.Method = M_initialize ->
            IF ~Fits(params, InitializeParamsT)
            THEN Outcome(<<>>, NoCheck,
                     <<sendError(msg.ID, InvalidParams, "Invalid initialize parameters")>>)
            ELSE handleInitialize(msg.ID, params)
      [] msg.Method = M_notifications_initialized ->
            handleNotificationInitialized
      [] msg.Method = M_resources_list ->
            handleListResources(tree, wd, baseDir, msg.ID)
      [] msg.Method = M_resources_read ->
            IF ~Fits(params, ReadResourceParamsT)
            THEN Outcome(<<>>, NoCheck,
                     <<sendError(msg.ID, InvalidParams,
                                 "Invalid read resource parameters")>>)
            ELSE handleReadResource(tree, wd, baseDir, msg.ID, params)
      [] msg.Method = M_tools_list -> handleListTools(msg.ID)
      [] msg.Method = M_tools_call ->
            IF ~Fits(params, CallToolParamsT)
            THEN Outcome(<<>>, NoCheck,
                     <<sendError(msg.ID, InvalidParams, "Invalid call tool parameters")>>)
            ELSE handleCallTool(tree, wd, baseDir, msg.ID, params)
      [] OTHER ->
            Outcome(<<>>, NoCheck,
                <<sendError(msg.ID, MethodNotFound, "Method not found: %s")>>)

\* handleMessage
handleMessage(tree, wd, baseDir, msg) ==
    Dispatch(tree, wd, baseDir, msg, mustMarshal(msg.Params))

\* ------------------------------------------------------------- input lines
\* A line of standard input: its text is empty, not JSON, or a JSON value;
\* long says the line exceeds the scanner's token limit of 64 KiB
\* (bufio.MaxScanTokenSize, the default of the bufio.NewScanner in
\* NewMCPServer).
Line(long, text, json) == [long |-> long, text |-> text, json |-> json]

\* A member that is left out of an object.
Absent == [t |-> "absent"]
Member(key, v) == IF v.t = "absent" THEN <<>> ELSE key :> v

\* An envelope with the given id, method and params members.
Envelope(id, method, params) ==
    JObj(("jsonrpc" :> JStr(<<"2", ".", "0">>)) @@ Member("id", id)
         @@ Member("method", method) @@ Member("params", params))

Request(id, method, params) == Line(FALSE, "json", Envelope(id, JStr(method), params))

\* Ids a caller uses: 1, 2^53 + 1, "x" (and none).
IdOne == JNum(0, 1)
IdBig == JNum(1, 1)
IdStr == JStr(<<"x">>)

ClientInfoOk == JObj([name |-> JStr(<<"c">>), version |-> JStr(<<"1">>)])

InitializeInputs ==
    { JObj([protocolVersion |-> JStr(<<"1">>), capabilities |-> JObj(<<>>),
            clientInfo |-> ClientInfoOk]),
      Absent,
      JNull,
      JStr(<<"x">>),
      JObj([protocolVersion |-> JNull, capabilities |-> JObj(<<>>),
            clientInfo |-> ClientInfoOk]) }

Uris ==
    { FileScheme \o <<"/", "a", "/", "b", "/", "f">>,
      FileScheme \o <<"/", "a", "/", "b", "c", "/", "x">>,
      FileScheme \o <<"/", "a", "/", "o">>,
      FileScheme \o <<"/", "a", "/", "b", "/", "m">>,
      FileScheme \o <<"/", "a", "/", "b", "/", "u">>,
      FileScheme \o <<"/", "a", "/", "b", "/", "e">>,
      FileScheme \o <<"/", "a", "/", "b", "/", "f", "/", "m">>,
      FileScheme \o <<"f">>,
      <<"h", ":", "/", "/", "f">> }

ReadResourceInputs ==
    { JObj([uri |-> JStr(u)]) : u \in Uris }
    \cup { Absent, JObj([uri |-> JNum(0, 1)]) }

Call(name, arguments) ==
    JObj(("name" :> JStr(name)) @@ Member("arguments", arguments))

ReadFilePaths ==
    { <<"f">>, <<".", ".", "/", "o">>, <<".", ".", "/", "b", "c", "/", "x">>,
      <<"m">> }

ListDirectoryPaths ==
    { <<"d">>, <<".", ".">>, <<".", ".", "/", "b", "c">>, <<"m">> }

Patterns == { <<"[", "e", "-", "f", "]", "*">>, <<"?", "?">>, <<"[">> }

CallToolInputs ==
    { Call(T_read_file, JObj([path |-> JStr(q)])) : q \in ReadFilePaths }
    \cup { Call(T_read_file, Absent),
           Call(T_read_file, JStr(<<"f">>)) }
    \cup { Call(T_list_directory, JObj([path |-> JStr(q)])) : q \in ListDirectoryPaths }
    \cup { Call(T_list_directory, Absent) }
    \cup { Call(T_search_files, JObj([pattern |-> JStr(q)])) : q \in Patterns }
    \cup { Call(T_search_files, JObj(<<>>)),
           Call(T_search_files, JObj([pattern |-> JNum(0, 1)])) }
    \cup { Call(<<"x">>, JObj(<<>>)),
           JObj([arguments |-> JObj([path |-> JStr(<<"f">>)])]),
           Absent }

\* Requests with id 1, one for every input of every method.
PlainRequests ==
    { Request(IdOne, M_initialize, q) : q \in InitializeInputs }
    \cup { Request(IdOne, M_resources_read, q) : q \in ReadResourceInputs }
    \cup { Request(IdOne, M_tools_call, q) : q \in CallToolInputs }
    \cup { Request(IdOne, M_notifications_initialized, JStr(<<"x">>)) }
    \cup { Request(IdOne, m, Absent) : m \in {M_resources_list, M_tools_list, <<"x">>} }

\* The other ids: 2^53 + 1 and "x" on an unknown method, none on tools/list
\* and on the notification.
OtherIdRequests ==
    { Request(IdBig, <<"x">>, Absent),
      Request(IdStr, <<"x">>, Absent),
      Request(Absent, M_tools_list, Absent),
      Request(Absent, M_notifications_initialized, Absent) }

\* Lines that are no request: empty, not JSON, JSON that is no envelope (an
\* array; a method that is no string), an envelope without method, and a
\* well-formed request and a line that is not JSON, each longer than the
\* token limit.
OtherLines ==
    { Line(FALSE, "empty", JNull),
      Line(FALSE, "garbage", JNull),
      Line(FALSE, "json", JArr),
      Line(FALSE, "json", Envelope(IdOne, JNum(0, 1), Absent)),
      Line(FALSE, "json", Envelope(IdOne, Absent, Absent)),
      Line(TRUE, "json", Envelope(IdOne, JStr(M_tools_list), Absent)),
      Line(TRUE, "garbage", JNull) }

Lines == PlainRequests \cup OtherIdRequests \cup OtherLines

\* ---------------------------------------------------------- configurations
\* How the server is started: the tree, the working directory and the
\* directory argument (main keeps it as given; "." when there is none).
Config(tree, wd, dir) == [tree |-> tree, wd |-> wd, dir |-> dir]

Configs ==
    { Config(TreeA, <<"/", "a", "/", "b">>, <<".">>),
      Config(TreeA, <<"/">>, <<"/", "a", "/", "b">>),
      Config(TreeB, <<"/", "a">>, <<"b">>),
      Config(TreeC, <<"/">>, <<"/", "a", "/", "b">>) }

\* -------------------------------------------------------------------- state
VARIABLES
    fs,       \* the file tree
    cwd,      \* the working directory of the process
    baseDir,  \* MCPServer.baseDir
    pc,       \* "reading" in the loop of Run, "done" after EOF, "failed"
              \* after a scanner error
    input,    \* the lines taken from standard input so far, each with what
              \* serving it did
    out       \* the lines written to standard output, each with the index
              \* of the input line that caused it

vars == <<fs, cwd, baseDir, pc, input, out>>

\* What is recorded for a line that never reached handleMessage.
Unserved(line) ==
    [line |-> line, decoded |-> FALSE, handlers |-> <<>>, check |-> NoCheck]

\* main: the directory must not be missing; NewMCPServer; Run starts.
Init ==
    /\ \E c \in Configs :
        /\ ~StatNotExist(c.tree, c.wd, c.dir)
        /\ fs = c.tree
        /\ cwd = c.wd
        /\ baseDir = c.dir
    /\ pc = "reading"
    /\ input = <<>>
    /\ out = <<>>

CanRead == pc = "reading" /\ Len(input) < MaxLines

\* Run: an empty line is skipped.
SkipEmpty(line) ==
    /\ CanRead
    /\ ~line.long
    /\ line.text = "empty"
    /\ input' = Append(input, Unserved(line))
    /\ UNCHANGED <<fs, cwd, baseDir, pc, out>>

\* Run: a line json.Unmarshal rejects is logged and dropped.
DiscardInvalid(line) ==
    /\ CanRead
    /\ ~line.long
    /\ \/ line.text = "garbage"
       \/ line.text = "json" /\ ~Fits(line.json, JSONRPCMessageT)
    /\ input' = Append(input, Unserved(line))
    /\ UNCHANGED <<fs, cwd, baseDir, pc, out>>

\* A Serve that takes the line and leaves its envelopes to be written later.
ServedLater(line, o) ==
    /\ input' = Append(input,
           [line |-> line, decoded |-> TRUE,
            handlers |-> o.handlers, check |-> o.check])
    /\ out' = out

\* The bookkeeping of Serve: the line with what serving it did, and its
\* envelopes appended to standard output.
Served(line, o) ==
    /\ input' = Append(input,
           [line |-> line, decoded |-> TRUE,
            handlers |-> o.handlers, check |-> o.check])
    /\ out' = out \o [k \in 1..Len(o.sent) |->
                         [src |-> Len(input) + 1, resp |-> o.sent[k]]]

\* What the handlers do to the file tree and to MCPServer.baseDir: they call
\* os.ReadFile, os.ReadDir and filepath.WalkDir only, and baseDir is assigned
\* in NewMCPServer alone.
\* Handlers that truncate every file, and an initialize that moves the root.
TreeTruncated(tree, handlers) ==
    IF handlers = <<>> THEN tree
    ELSE [q \in DOMAIN tree |->
             IF tree[q].kind = "file" THEN FileNode("", 0, TRUE) ELSE tree[q]]
BaseDirMoved(dir, handlers) ==
    IF handlers = <<"handleInitialize">> THEN <<"/">> ELSE dir

TreeAfter(tree, handlers) == tree
BaseDirAfter(dir, handlers) == dir

\* Run: a decoded line is handed to handleMessage, whose envelopes are
\* printed before the next line is read.
Serve(line) ==
    /\ CanRead
    /\ ~line.long
    /\ line.text = "json"
    /\ Fits(line.json, JSONRPCMessageT)
    /\ Served(line, handleMessage(fs, cwd, baseDir, DecodeMessage(line.json)))
    /\ fs' = TreeAfter(fs, input'[Len(input')].handlers)
    /\ baseDir' = BaseDirAfter(baseDir, input'[Len(input')].handlers)
    /\ UNCHANGED <<cwd, pc>>

\* Run: Scan returns false on a line over the token limit and Err reports
\* it; Run returns the error and main exits.
ScanTooLong(line) ==
    /\ CanRead
    /\ line.long
    /\ input' = Append(input, Unserved(line))
    /\ pc' = "failed"
    /\ UNCHANGED <<fs, cwd, baseDir, out>>

\* Run: Scan returns false at the end of input; Run returns nil.
EndOfInput ==
    /\ pc = "reading"
    /\ pc' = "done"
    /\ UNCHANGED <<fs, cwd, baseDir, input, out>>

Next ==
    \/ \E line \in Lines : SkipEmpty(line)
    \/ \E line \in Lines : DiscardInvalid(line)
    \/ \E line \in Lines : Serve(line)
    \/ \E line \in Lines : ScanTooLong(line)
    \/ EndOfInput

Spec == Init /\ [][Next]_vars

\* ------------------------------------------------------------------ claims
\* The number of output lines caused by input line i.
NOut(i) == Cardinality({k \in 1..Len(out) : out[k].src = i})

\* The envelopes caused by input line i.
Replies(i) == {out[k].resp : k \in {j \in 1..Len(out) : out[j].src = i}}

\* A line that is a JSON object json.Unmarshal accepts as an envelope.
WellFormed(line) ==
    line.text = "json" /\ line.json.t = "object" /\ Fits(line.json, JSONRPCMessageT)

\* The line names method m.
HasMethod(line, m) ==
    /\ line.text = "json"
    /\ Field(line.json, "method").t = "string"
    /\ Field(line.json, "method").s = m

\* The line carries an id / a params member.
HasId(line) == line.text = "json" /\ line.json.t = "object" /\ "id" \in DOMAIN line.json.o
HasParams(line) ==
    line.text = "json" /\ line.json.t = "object" /\ "params" \in DOMAIN line.json.o

\* Two ids are the same JSON value.
SameId(a, b) ==
    /\ a.t = b.t
    /\ a.t = "number" => (a.hi = b.hi /\ a.lo = b.lo)
    /\ a.t = "string" => a.s = b.s

\* The fields the routing table requires of each method with parameters, and
\* the JSON type of each.
ParamMethods == {M_initialize, M_resources_read, M_tools_call}

Required(m) ==
    CASE m = M_initialize -> {"protocolVersion", "capabilities", "clientInfo"}
      [] m = M_resources_read -> {"uri"}
      [] m = M_tools_call -> {"name", "arguments"}

FieldType(key) ==
    IF key \in {"protocolVersion", "uri", "name"} THEN "string" ELSE "object"

\* C1: the containment check accepts a path iff its canonical form is the
\* root or a descendant of the root, compared component by component.
SandboxSound ==
    \A i \in 1..Len(input) :
        input[i].check.done =>
            (input[i].check.ok <=> Within(input[i].check.base, input[i].check.abs))

\* C2: every well-formed request line whose method is not
\* notifications/initialized produces exactly one output line, and the output
\* lines come in the order of the lines that caused them.
OneReplyInOrder ==
    /\ \A i \in 1..Len(input) :
           (WellFormed(input[i].line)
              /\ ~HasMethod(input[i].line, M_notifications_initialized))
           => NOut(i) = 1
    /\ \A j, k \in 1..Len(out) : j < k => out[j].src <= out[k].src

\* C3: a well-formed line without an id produces no output line, whatever
\* its method.
NoReplyWithoutId ==
    \A i \in 1..Len(input) :
        (WellFormed(input[i].line) /\ ~HasId(input[i].line)) => NOut(i) = 0

\* C4: a line whose method is notifications/initialized produces no output
\* line, with or without an id and whatever its params.
NotificationSilence ==
    \A i \in 1..Len(input) :
        HasMethod(input[i].line, M_notifications_initialized) => NOut(i) = 0

\* C4 witness: a notifications/initialized line that carries an id and params
\* has been dispatched to its handler.
NotificationWithIdServed ==
    \E i \in 1..Len(input) :
        /\ HasMethod(input[i].line, M_notifications_initialized)
        /\ HasId(input[i].line)
        /\ HasParams(input[i].line)
        /\ input[i].handlers = <<"handleNotificationInitialized">>

\* C5: every response carries the id of the request that caused it, as the
\* same JSON value, for numeric and for string ids.
IdEchoed ==
    \A k \in 1..Len(out) :
        Field(input[out[k].src].line.json, "id").t \in {"number", "string"}
        => SameId(out[k].resp.id, Field(input[out[k].src].line.json, "id"))

\* The texts with which a handler reports a containment violation.
DenialTexts ==
    {"Access denied: file outside allowed directory",
     "Access denied: directory outside allowed path"}

\* Input line i made a path handler resolve a path that lies outside the root.
Escapes(i) ==
    /\ input[i].check.done
    /\ ~Within(input[i].check.base, input[i].check.abs)

\* C6: read_file or list_directory with a path that escapes the root is
\* answered by a result (no error payload) whose ToolResult has isError set
\* and a text that mentions the denial.
DenialIsToolResult ==
    \A i \in 1..Len(input) :
        (Escapes(i) /\ Len(input[i].handlers) = 2) =>
            \E r \in Replies(i) :
                /\ r.code = 0
                /\ r.result.kind = "tool"
                /\ r.result.isError
                /\ r.result.text \in DenialTexts

\* C7: a path that escapes the root is answered with code -32602, through
\* resources/read, read_file and list_directory alike.
ViolationIsInvalidParams ==
    \A i \in 1..Len(input) :
        Escapes(i) => (NOut(i) = 1 /\ \A r \in Replies(i) : r.code = InvalidParams)

\* Line i is a decoded request of method m whose params leave out a field
\* the routing table requires (or are left out altogether).
OmitsRequired(i, m) ==
    /\ input[i].decoded
    /\ HasMethod(input[i].line, m)
    /\ \/ ~HasParams(input[i].line)
       \/ /\ Field(input[i].line.json, "params").t = "object"
          /\ ~(Required(m) \subseteq DOMAIN Field(input[i].line.json, "params").o)

\* C8: a request for initialize, resources/read or tools/call whose params
\* omit a required field gets an error with code -32602 and its handler does
\* not run.
RequiredParamsEnforced ==
    \A i \in 1..Len(input) : \A m \in ParamMethods :
        OmitsRequired(i, m) =>
            /\ input[i].handlers = <<>>
            /\ NOut(i) = 1
            /\ \A r \in Replies(i) : r.code = InvalidParams

\* Line i is a decoded request of method m whose params are no object, or
\* hold a required field of another JSON type than the routing table's.
Mismatched(i, m) ==
    /\ input[i].decoded
    /\ HasMethod(input[i].line, m)
    /\ HasParams(input[i].line)
    /\ \/ Field(input[i].line.json, "params").t # "object"
       \/ \E key \in Required(m) \cap DOMAIN Field(input[i].line.json, "params").o :
              Field(input[i].line.json, "params").o[key].t # FieldType(key)

\* C9: params that are malformed or of the wrong type get an error with code
\* -32602 and the method's handler does not run.
MismatchRejected ==
    \A i \in 1..Len(input) : \A m \in ParamMethods :
        Mismatched(i, m) =>
            /\ input[i].handlers = <<>>
            /\ NOut(i) = 1
            /\ \A r \in Replies(i) : r.code = InvalidParams

\* Line i is a tools/call that decodes and names a tool the server lacks.
UnknownTool(i) ==
    /\ input[i].decoded
    /\ HasMethod(input[i].line, M_tools_call)
    /\ input[i].handlers # <<>>
    /\ Field(Field(input[i].line.json, "params"), "name").t = "string"
    /\ Field(Field(input[i].line.json, "params"), "name").s
           \notin {T_read_file, T_list_directory, T_search_files}

\* C10: tools/call with an unknown tool name is answered by a result whose
\* ToolResult has isError set, not by an error payload.
UnknownToolIsToolFailure ==
    \A i \in 1..Len(input) :
        UnknownTool(i) =>
            \E r \in Replies(i) : r.code = 0 /\ r.result.kind = "tool" /\ r.result.isError

\* The six methods of the routing table.
Methods ==
    {M_initialize, M_notifications_initialized, M_resources_list,
     M_resources_read, M_tools_list, M_tools_call}

\* Line i is a well-formed request (it carries a numeric or string id) whose
\* method is none of the six.
UnknownMethod(i) ==
    /\ WellFormed(input[i].line)
    /\ Field(input[i].line.json, "id").t \in {"number", "string"}
    /\ StringOf(Field(input[i].line.json, "method")) \notin Methods

\* C11: a request whose method is none of the six gets exactly one response,
\* with error code -32601, no result, and the request's id.
UnknownMethodAnswered ==
    \A i \in 1..Len(input) :
        UnknownMethod(i) =>
            /\ NOut(i) = 1
            /\ \A r \in Replies(i) :
                   /\ r.code = MethodNotFound
                   /\ r.result = NoResult
                   /\ SameId(r.id, Field(input[i].line.json, "id"))

\* C12: a line that is not JSON causes no output line and does not end the
\* loop: Run has not failed on it, and every well-formed line of ordinary
\* length after it has been handed to handleMessage.
InvalidLineSkipped ==
    \A i \in 1..Len(input) :
        input[i].line.text = "garbage" =>
            /\ NOut(i) = 0
            /\ ~(i = Len(input) /\ pc = "failed")
            /\ \A j \in (i + 1)..Len(input) :
                   (WellFormed(input[j].line) /\ ~input[j].line.long)
                   => input[j].decoded

\* Line i ran the given tool handler on a path inside the root.
ToolInside(i, handler) ==
    /\ input[i].handlers = <<"handleCallTool", handler>>
    /\ input[i].check.done
    /\ Within(input[i].check.base, input[i].check.abs)

\* Line i got one successful envelope whose ToolResult reports a failure in
\* words.
ToolFailure(i) ==
    /\ NOut(i) = 1
    /\ \A r \in Replies(i) :
           /\ r.code = 0
           /\ r.result.kind = "tool"
           /\ r.result.isError
           /\ r.result.text # ""

\* The directory at path p exists and the process may not open it.
Locked(p) == p \in DOMAIN fs /\ fs[p].kind = "dir" /\ ~fs[p].readable

\* C13: read_file on a path inside the root that does not exist, and
\* list_directory on a directory inside the root that does not exist or that
\* cannot be read, get a successful envelope whose ToolResult has isError set
\* and a message.
ToolFailuresAreData ==
    \A i \in 1..Len(input) :
        /\ (ToolInside(i, "handleReadFileTool")
              /\ input[i].check.abs \notin DOMAIN fs) => ToolFailure(i)
        /\ (ToolInside(i, "handleListDirectoryTool")
              /\ (input[i].check.abs \notin DOMAIN fs \/ Locked(input[i].check.abs)))
           => ToolFailure(i)

\* C13 witness: read_file on a missing file and list_directory on a directory
\* that cannot be read have both been served.
ToolFailuresServed ==
    /\ \E i \in 1..Len(input) :
           /\ ToolInside(i, "handleReadFileTool")
           /\ input[i].check.abs \notin DOMAIN fs
           /\ ToolFailure(i)
    /\ \E i \in 1..Len(input) :
           /\ ToolInside(i, "handleListDirectoryTool")
           /\ Locked(input[i].check.abs)
           /\ ToolFailure(i)

\* Line i ran handleReadResource; the uri it was given.
ReadServed(i) == input[i].handlers = <<"handleReadResource">>
UriOf(i) == StringOf(Field(Field(input[i].line.json, "params"), "uri"))

\* The uri of line i has the file:// scheme and names a path inside the root.
ReadInside(i) ==
    /\ HasPrefix(UriOf(i), FileScheme)
    /\ input[i].check.done
    /\ Within(input[i].check.base, input[i].check.abs)

\* The only reply to line i is an error with the given code.
OnlyError(i, code) ==
    NOut(i) = 1 /\ \A r \in Replies(i) : r.code = code /\ r.result = NoResult

\* C14: resources/read answers -32602 to a uri without the file:// scheme,
\* -32602 to a uri inside the root that names no existing file, -32603 to a
\* file inside the root that exists and cannot be read, and returns a result
\* (with one ResourceContent) only for a file:// uri of an existing, readable
\* file.
ReadClassified ==
    \A i \in 1..Len(input) :
        ReadServed(i) =>
            /\ ~HasPrefix(UriOf(i), FileScheme) => OnlyError(i, InvalidParams)
            /\ (ReadInside(i) /\ input[i].check.abs \notin DOMAIN fs)
               => OnlyError(i, InvalidParams)
            /\ (ReadInside(i) /\ input[i].check.abs \in DOMAIN fs
                  /\ fs[input[i].check.abs].kind = "file"
                  /\ ~fs[input[i].check.abs].readable)
               => OnlyError(i, InternalError)
            /\ \A r \in Replies(i) :
                   r.code = 0 =>
                       /\ HasPrefix(UriOf(i), FileScheme)
                       /\ input[i].check.abs \in DOMAIN fs
                       /\ fs[input[i].check.abs].kind = "file"
                       /\ fs[input[i].check.abs].readable
                       /\ r.result.kind = "contents"
                       /\ Len(r.result.body) = 1

\* Line i ran handleListResources.
ListServed(i) == input[i].handlers = <<"handleListResources">>

\* C15: every Resource of a resources/list result has the uri file://
\* followed by the absolute path of the root joined with the Resource's
\* name, however the root was given at startup.
ListedUrisAbsolute ==
    \A i \in 1..Len(input) :
        ListServed(i) =>
            \A r \in Replies(i) :
                r.code = 0 =>
                    \A k \in 1..Len(r.result.body) :
                        r.result.body[k].uri
                            = FileScheme \o Join(Abs(cwd, baseDir), r.result.body[k].name)

\* The root as an absolute path, the regular files at any depth below it,
\* and whether some directory at or below it cannot be opened.
Root == Abs(cwd, baseDir)
FilesUnderRoot == {q \in DOMAIN fs : fs[q].kind = "file" /\ Within(Root, q)}
SomeDirLocked == \E q \in DOMAIN fs : Locked(q) /\ Within(Root, q)

\* The files a list of Resources stands for.
ListedFiles(body) == {Abs(cwd, Join(baseDir, body[k].name)) : k \in 1..Len(body)}

TreeUntouched == [][fs' = fs]_vars

\* C17 witness: read_file returned a file's content, resources/list was
\* served after it, and the tree is the one the server started with.
ReadAndListedUntouched ==
    /\ Len(input) = 2
    /\ input[1].handlers = <<"handleCallTool", "handleReadFileTool">>
    /\ \E r \in Replies(1) : r.code = 0 /\ ~r.result.isError
    /\ ListServed(2)
    /\ fs = TreeA

\* The step appends exactly the given envelopes to standard output, as the
\* replies to the line it took.
Appends(sent) ==
    out' = out \o [k \in 1..Len(sent) |-> [src |-> Len(input'), resp |-> sent[k]]]

\* The step served a line.
ServesLine == Len(input') = Len(input) + 1 /\ input'[Len(input')].decoded

\* C18: every step leaves the root configuration as it is, and a step that
\* serves a line sends what handleMessage gives for that line alone under
\* the root configuration and the file tree, whatever lines came before; so
\* the same line served twice gets the same replies.
Stateless ==
    [][/\ baseDir' = baseDir
       /\ cwd' = cwd
       /\ ServesLine =>
              Appends(handleMessage(fs, cwd, baseDir,
                          DecodeMessage(input'[Len(input')].line.json)).sent)
       /\ \A i, j \in 1..Len(input') :
              (input'[i].decoded /\ input'[i].line = input'[j].line)
              => {out'[k].resp : k \in {n \in 1..Len(out') : out'[n].src = i}}
                 = {out'[k].resp : k \in {n \in 1..Len(out') : out'[n].src = j}}]_vars

\* C18 witness: initialize was served and then resources/list returned its
\* Resources.
ListedAfterInitialize ==
    /\ Len(input) = 2
    /\ input[1].handlers = <<"handleInitialize">>
    /\ ListServed(2)
    /\ \E r \in Replies(2) : r.code = 0 /\ r.result.body # <<>>

\* Shell-glob matching of a name with no separator in it, for patterns made
\* of literal characters, "*", "?" and character classes (sets and ranges,
\* "^" negates): the index of the "]" that closes the class p begins with (0
\* when there is none), membership in a class body, and the match itself.
ClassEnd(p) ==
    IF \E k \in 3..Len(p) : p[k] = "]"
    THEN CHOOSE k \in 3..Len(p) : p[k] = "]" /\ \A n \in 3..(k - 1) : p[n] # "]"
    ELSE 0

RECURSIVE ClassHas(_, _)
ClassHas(items, c) ==
    IF items = <<>> THEN FALSE
    ELSE IF Len(items) >= 3 /\ items[2] = "-"
    THEN \/ CharRank(items[1]) <= CharRank(c) /\ CharRank(c) <= CharRank(items[3])
         \/ ClassHas(SubSeq(items, 4, Len(items)), c)
    ELSE items[1] = c \/ ClassHas(Tail(items), c)

InClass(body, c) ==
    IF body[1] = "^" THEN ~ClassHas(Tail(body), c) ELSE ClassHas(body, c)

RECURSIVE Glob(_, _)
Glob(p, name) ==
    IF p = <<>> THEN name = <<>>
    ELSE IF p[1] = "*"
    THEN Glob(Tail(p), name) \/ (name # <<>> /\ Glob(p, Tail(name)))
    ELSE IF name = <<>> THEN FALSE
    ELSE IF p[1] = "?" THEN Glob(Tail(p), Tail(name))
    ELSE IF p[1] = "["
    THEN /\ InClass(SubSeq(p, 2, ClassEnd(p) - 1), name[1])
         /\ Glob(SubSeq(p, ClassEnd(p) + 1, Len(p)), Tail(name))
    ELSE p[1] = name[1] /\ Glob(Tail(p), Tail(name))

\* A pattern of that kind is well formed when every "[" has its "]"; patterns
\* with an escape character are left aside.
RECURSIVE GlobOk(_)
GlobOk(p) ==
    IF p = <<>> THEN TRUE
    ELSE IF p[1] = "\\" THEN FALSE
    ELSE IF p[1] = "["
    THEN ClassEnd(p) # 0 /\ GlobOk(SubSeq(p, ClassEnd(p) + 1, Len(p)))
    ELSE GlobOk(Tail(p))

\* Relative paths in the order of a walk: element by element, each in
\* lexical order.
RECURSIVE ElemsLess(_, _)
ElemsLess(a, b) ==
    IF b = <<>> THEN FALSE
    ELSE IF a = <<>> THEN TRUE
    ELSE IF a[1] = b[1] THEN ElemsLess(Tail(a), Tail(b))
    ELSE NameLess(a[1], b[1])

\* Line i ran handleSearchFilesTool; the pattern member of its arguments.
SearchServed(i) == input[i].handlers = <<"handleCallTool", "handleSearchFilesTool">>
PatternOf(i) ==
    Field(Field(Field(input[i].line.json, "params"), "arguments"), "pattern")

\* The files below the root whose base name matches pattern p.
Matching(p) == {q \in FilesUnderRoot : Glob(p, Base(q))}

NoMatchText == "Files matching pattern '%s':\nNo files found matching the pattern."

\* The only reply to line i is a search result that lists exactly the files
\* in the set, in walk order, with the no-matches text iff the set is empty.
SearchResultIs(i, files) ==
    /\ NOut(i) = 1
    /\ \A r \in Replies(i) :
           /\ r.code = 0
           /\ r.result.kind = "tool"
           /\ ~r.result.isError
           /\ Len(r.result.body) = Cardinality(files)
           /\ {Abs(cwd, Join(baseDir, r.result.body[k])) : k \in 1..Len(r.result.body)}
                  = files
           /\ \A k, n \in 1..Len(r.result.body) :
                  k < n => ElemsLess(Split(r.result.body[k]), Split(r.result.body[n]))
           /\ (r.result.text = NoMatchText) <=> (files = {})

TextOrBlob ==
    \A i \in 1..Len(input) :
        ReadServed(i) =>
            \A r \in Replies(i) :
                r.code = 0 =>
                    \A k \in 1..Len(r.result.body) :
                        ("text" \in r.result.body[k].members)
                            # ("blob" \in r.result.body[k].members)

\* A pattern without escape characters in which some "[" is never closed.
Unclosed(p) == ~GlobOk(p) /\ \A k \in 1..Len(p) : p[k] # "\\"

\* C21: search_files with a malformed pattern is answered by a ToolResult
\* with isError set, whatever the tree below the root holds, a root without
\* files included.
MalformedPatternReported ==
    \A i \in 1..Len(input) :
        (SearchServed(i) /\ PatternOf(i).t = "string" /\ Unclosed(PatternOf(i).s))
        => ToolFailure(i)

\* The path part of the uri of line i, and the file it names when a path
\* that is not absolute is joined to the root.
UriPath(i) == TrimPrefix(UriOf(i), FileScheme)
UnderRoot(i) == Join(Root, UriPath(i))

\* Line i asked resources/read for a file:// uri whose path is not absolute.
RelativeRead(i) ==
    /\ ReadServed(i)
    /\ HasPrefix(UriOf(i), FileScheme)
    /\ UriPath(i) # <<>>
    /\ ~IsAbs(UriPath(i))

\* C22: resources/read resolves a uri path that is not absolute against the
\* root, under every root configuration: the path it checks and reads is the
\* root joined with the uri path, and the content is returned when that is a
\* readable file inside the root.
RelativeUriUnderRoot ==
    \A i \in 1..Len(input) :
        RelativeRead(i) =>
            /\ input[i].check.done
            /\ input[i].check.abs = UnderRoot(i)
            /\ (Within(Root, UnderRoot(i))
                  /\ UnderRoot(i) \in DOMAIN fs
                  /\ fs[UnderRoot(i)].kind = "file"
                  /\ fs[UnderRoot(i)].readable)
               => \E r \in Replies(i) : r.code = 0 /\ r.result.kind = "contents"

\* The number of output lines a handled line causes.
Due(i) == IF HasMethod(input[i].line, M_notifications_initialized) THEN 0 ELSE 1

\* C23: whenever Run is about to read a line, and when it has ended, every
\* line taken before (of ordinary length) has been handled and its response
\* written, the responses in the order of their lines; an end of input can
\* end the run at any such moment, and no step follows the end of the run.
NothingPending ==
    /\ \A i \in 1..Len(input) :
           (WellFormed(input[i].line) /\ ~input[i].line.long)
           => (input[i].decoded /\ NOut(i) = Due(i))
    /\ \A j, k \in 1..Len(out) : j < k => out[j].src <= out[k].src
    /\ pc = "reading" => ENABLED EndOfInput
    /\ pc # "reading" => ~ENABLED Next

\* C23 witness: the run has ended at the end of input after two requests,
\* each answered before the next step.
EndedAfterTwoAnswered ==
    /\ pc = "done"
    /\ Len(input) = 2
    /\ \A i \in 1..2 : input[i].decoded /\ NOut(i) = 1
    /\ Len(out) = 2
    /\ out[1].src = 1
    /\ out[2].src = 2

====
